---- MODULE Spec2Model ----
(***************************************************************************)
(* Model of web/src/modules/layerService.js: the range extraction          *)
(* getMinMaxFromGeoJson, the fill-colour expression built from it,         *)
(* findFirstSymbolLayer and cleanupLayers.                                 *)
(*                                                                         *)
(* Three specifications share the module, one per group of functions:      *)
(*   SpecRange   - feature collections, getMinMaxFromGeoJson and           *)
(*                 getDynamicFillColorExpression                           *)
(*   SpecLookup  - style layer lists and findFirstSymbolLayer              *)
(*   SpecCleanup - the map's layer/source registry and cleanupLayers       *)
(***************************************************************************)
EXTENDS Integers, Sequences, FiniteSets, TLC

VARIABLES
    features,      \* geoJsonData.features built so far
    rangeCall,     \* outcome of the last getMinMaxFromGeoJson call
    fillCall,      \* outcome of the last getDynamicFillColorExpression call
    styleLayers,   \* map.getStyle().layers
    lookupCall,    \* outcome of the last findFirstSymbolLayer call
    layers,        \* ids of the layers the map holds
    sources,       \* ids of the sources the map holds
    cleanupCall    \* record of the last cleanupLayers call

vars == <<features, rangeCall, fillCall, styleLayers, lookupCall,
          layers, sources, cleanupCall>>

rangeVars == <<features, rangeCall, fillCall>>
lookupVars == <<styleLayers, lookupCall>>
cleanupVars == <<layers, sources, cleanupCall>>

----------------------------------------------------------------------------
(* Bounds *)

MaxFeatures == 3
MaxLayers == 3
MaxIds == 2

----------------------------------------------------------------------------
(* JavaScript values a feature property can hold.  A value is a record     *)
(* [t, v]: t is the kind, v the integer payload (0 where there is none).   *)

Num(n) == [t |-> "num", v |-> n]
Infinity == [t |-> "inf", v |-> 0]
NaN == [t |-> "nan", v |-> 0]
Null == [t |-> "null", v |-> 0]
Undefined == [t |-> "undef", v |-> 0]
\* the string "7": a string that Number() would convert to a number
Str7 == [t |-> "str", v |-> 7]

Finite == {Num(n) : n \in {-1, 0, 2}}
Numeric == Finite \cup {Infinity}
NonNumeric == {NaN, Null, Str7}
Vals == Numeric \cup NonNumeric

Keys == {"k1", "k2"}

\* A property bag maps every key to its value, Undefined when the key is
\* absent.  The bags drawn carry at most one property.
Bags == {[k \in Keys |-> Undefined]} \cup
        {[k \in Keys |-> IF k = k0 THEN x ELSE Undefined] : k0 \in Keys, x \in Vals}

\* A feature whose properties member is null or missing has no bag.
NoBagFeature == [hasProps |-> FALSE, properties |-> [k \in Keys |-> Undefined]]
BagFeatures == {[hasProps |-> TRUE, properties |-> b] : b \in Bags}
Features == BagFeatures \cup {NoBagFeature}

----------------------------------------------------------------------------
(* JavaScript primitives used by getMinMaxFromGeoJson *)

\* typeof val === 'number'
TypeofNumber(val) == val.t \in {"num", "inf", "nan"}

\* the global isNaN(val): val is converted with Number() first
IsNaN(val) == val.t \in {"nan", "undef"}

\* a < b on numbers
Less(a, b) ==
    /\ a.t = "num"
    /\ \/ b.t = "inf"
       \/ b.t = "num" /\ a.v < b.v

\* a === b on numbers
StrictEq(a, b) == a = b

\* a + 1 on numbers
PlusOne(a) == IF a.t = "inf" THEN Infinity ELSE Num(a.v + 1)

RECURSIVE MathMin(_)
\* Math.min(...values), values non-empty
MathMin(values) ==
    IF Len(values) = 1 THEN values[1]
    ELSE LET m == MathMin(Tail(values))
         IN IF Less(values[1], m) THEN values[1] ELSE m

RECURSIVE MathMax(_)
\* Math.max(...values), values non-empty
MathMax(values) ==
    IF Len(values) = 1 THEN values[1]
    ELSE LET m == MathMax(Tail(values))
         IN IF Less(m, values[1]) THEN values[1] ELSE m

----------------------------------------------------------------------------
(* getMinMaxFromGeoJson *)

\* mutant: the typeof test is dropped, so null and numeric strings pass
IsValidNumberNoTypeof(val) == ~IsNaN(val) /\ val # Null

\* val => typeof val === 'number' && !isNaN(val) && val !== null
IsValidNumber(val) == TypeofNumber(val) /\ ~IsNaN(val) /\ val # Null

RECURSIVE Filter(_)
\* Array.prototype.filter with the callback above: the values that pass,
\* in order
Filter(s) ==
    IF s = <<>> THEN <<>>
    ELSE IF IsValidNumber(s[1]) THEN <<s[1]>> \o Filter(Tail(s))
         ELSE Filter(Tail(s))

\* mutant: the bag is read with optional chaining, a missing bag reads as
\* undefined
PropertyNeverThrows(fs) == FALSE

\* f.properties[statisticKey] raises a TypeError when f.properties is
\* null or undefined
PropertyThrows(fs) == \E i \in 1..Len(fs) : ~fs[i].hasProps

\* geoJsonData.features.map(f => f.properties[statisticKey])
MappedValues(fs, key) == [i \in 1..Len(fs) |-> fs[i].properties[key]]

Returned(lo, hi) == [status |-> "returned", min |-> lo, max |-> hi]
Thrown == [status |-> "TypeError", min |-> Undefined, max |-> Undefined]
NotCalled == [status |-> "none", min |-> Undefined, max |-> Undefined]

\* mutant: the empty fallback is an artificial range as well
EmptyFallbackUnit == Returned(Num(0), Num(1))

\* return [0, 0]
EmptyFallback == Returned(Num(0), Num(0))

\* mutant: no artificial range, the pair stays degenerate
SameValueRangeWrong(minValue) == Returned(minValue, minValue)

\* return [minValue, minValue + 1]
SameValueRange(minValue) == Returned(minValue, PlusOne(minValue))

GetMinMaxFromGeoJson(fs, key) ==
    IF PropertyThrows(fs) THEN Thrown
    ELSE LET values == Filter(MappedValues(fs, key))
         IN IF Len(values) = 0 THEN EmptyFallback
            ELSE LET minValue == MathMin(values)
                     maxValue == MathMax(values)
                 IN IF StrictEq(minValue, maxValue)
                    THEN SameValueRange(minValue)
                    ELSE Returned(minValue, maxValue)

(* The outcome of a call, with the statisticKey it was made with. *)
RangeCall(key, res) == [key |-> key, result |-> res]
NoRangeCall == RangeCall("", NotCalled)

----------------------------------------------------------------------------
(* getDynamicFillColorExpression *)

\* colorScale(v).hex(), or colorScale(v).brighten().hex(): the colour the
\* scale over domain [lo, hi] gives at v.  The chroma library computes it;
\* the model keeps the term.
Colour(lo, hi, v, bright) == [domain |-> <<lo, hi>>, at |-> v, brighten |-> bright]

\* ['interpolate', ['linear'], ['coalesce', ['get', statisticKey], 0],
\*  minValue, colour, maxValue, colour]
Interpolate(key, lo, hi, bright) ==
    [input |-> key,
     stop1 |-> lo, out1 |-> Colour(lo, hi, lo, bright),
     stop2 |-> hi, out2 |-> Colour(lo, hi, hi, bright)]

NoInterpolate == Interpolate("", Undefined, Undefined, FALSE)

\* ['case', ['boolean', ['feature-state', 'hover'], false], hovered, plain]
GetDynamicFillColorExpression(fs, key) ==
    LET r == GetMinMaxFromGeoJson(fs, key)
    IN IF r.status # "returned"
       THEN [status |-> r.status, key |-> key,
             hovered |-> NoInterpolate, plain |-> NoInterpolate]
       ELSE [status |-> "returned", key |-> key,
             hovered |-> Interpolate(key, r.min, r.max, TRUE),
             plain |-> Interpolate(key, r.min, r.max, FALSE)]

NoFillCall == [status |-> "none", key |-> "",
               hovered |-> NoInterpolate, plain |-> NoInterpolate]

----------------------------------------------------------------------------
(* findFirstSymbolLayer *)

LayerIds == {"l1", "l2", "l3", "l4"}
LayerTypes == {"symbol", "fill", "line"}
StyleLayer == [id : LayerIds, type : LayerTypes]

NullId == [isNull |-> TRUE, id |-> ""]
FoundId(id) == [isNull |-> FALSE, id |-> id]

\* layer.type === 'symbol'
IsSymbol(layer) == layer.type = "symbol"

RECURSIVE ScanLayersLast(_)
\* mutant: the loop does not return at the first match, the last one wins
ScanLayersLast(ls) ==
    IF ls = <<>> THEN NullId
    ELSE IF IsSymbol(ls[Len(ls)]) THEN FoundId(ls[Len(ls)].id)
         ELSE ScanLayersLast(SubSeq(ls, 1, Len(ls) - 1))

RECURSIVE ScanLayers(_)
\* for (const layer of layers) { if (...) return layer.id; } return null;
ScanLayers(ls) ==
    IF ls = <<>> THEN NullId
    ELSE IF IsSymbol(ls[1]) THEN FoundId(ls[1].id)
         ELSE ScanLayers(Tail(ls))

FindFirstSymbolLayer(ls) == ScanLayers(ls)

NoLookupCall == [called |-> FALSE, result |-> NullId]

----------------------------------------------------------------------------
(* cleanupLayers *)

Ids == {"x", "y", "z"}

RECURSIVE SeqsUpTo(_, _)
\* the sequences over S of length at most n
SeqsUpTo(S, n) ==
    IF n = 0 THEN {<<>>}
    ELSE LET shorter == SeqsUpTo(S, n - 1)
         IN shorter \cup {Append(q, e) : q \in shorter, e \in S}

IdLists == SeqsUpTo(Ids, MaxIds)

\* The map while a call runs: its registry, the calls made on it so far
\* (each with the registry it met) and the errors it has signalled.
MapState(ls, ss) == [layers |-> ls, sources |-> ss, log |-> <<>>, errors |-> 0]

Logged(m, op, id) ==
    [m EXCEPT !.log = Append(@, [op |-> op, id |-> id,
                                 layers |-> m.layers, sources |-> m.sources])]

\* map.removeLayer(layerId): the map signals an error for an id it does not hold
RemoveLayer(m, id) ==
    [Logged(m, "removeLayer", id) EXCEPT
        !.layers = @ \ {id},
        !.errors = IF id \in m.layers THEN @ ELSE @ + 1]

\* map.removeSource(sourceId): the map signals an error for an id it does not hold
RemoveSource(m, id) ==
    [Logged(m, "removeSource", id) EXCEPT
        !.sources = @ \ {id},
        !.errors = IF id \in m.sources THEN @ ELSE @ + 1]

\* mutant: the layer is removed without asking the map first
GetLayerAlways(m, id) == TRUE

\* map.getLayer(layerId), as the condition of the if
GetLayer(m, id) == id \in m.layers

\* mutant: the source is removed without asking the map first
GetSourceAlways(m, id) == TRUE

\* map.getSource(sourceId), as the condition of the if
GetSource(m, id) == id \in m.sources

\* layerId => { if (map.getLayer(layerId)) map.removeLayer(layerId); }
LayerCallback(m, id) ==
    LET asked == Logged(m, "getLayer", id)
    IN IF GetLayer(m, id) THEN RemoveLayer(asked, id) ELSE asked

\* sourceId => { if (map.getSource(sourceId)) map.removeSource(sourceId); }
SourceCallback(m, id) ==
    LET asked == Logged(m, "getSource", id)
    IN IF GetSource(m, id) THEN RemoveSource(asked, id) ELSE asked

RECURSIVE ForEachLayer(_, _)
\* layerIds.forEach(...)
ForEachLayer(m, ids) ==
    IF ids = <<>> THEN m
    ELSE ForEachLayer(LayerCallback(m, ids[1]), Tail(ids))

RECURSIVE ForEachSource(_, _)
\* sourceIds.forEach(...)
ForEachSource(m, ids) ==
    IF ids = <<>> THEN m
    ELSE ForEachSource(SourceCallback(m, ids[1]), Tail(ids))

\* mutant: the sources are removed before the layers
CleanupSourcesFirst(m, layerIds, sourceIds) ==
    ForEachLayer(ForEachSource(m, sourceIds), layerIds)

\* mutant: the second loop walks layerIds again
CleanupLayerIdsTwice(m, layerIds, sourceIds) ==
    ForEachSource(ForEachLayer(m, layerIds), layerIds)

\* the body of cleanupLayers: layers first, then sources
CleanupLayers(m, layerIds, sourceIds) ==
    ForEachSource(ForEachLayer(m, layerIds), sourceIds)

\* the removal calls of a log
Removals(log) ==
    Cardinality({i \in 1..Len(log) : log[i].op \in {"removeLayer", "removeSource"}})

NoCleanupCall ==
    [called |-> FALSE, repeat |-> FALSE, layerIds |-> <<>>, sourceIds |-> <<>>,
     entryLayers |-> {}, entrySources |-> {}, log |-> <<>>, errors |-> 0,
     priorRemovals |-> 0]

----------------------------------------------------------------------------
(* SpecRange: a feature collection is put together, then the two range     *)
(* functions are called on it with some key.                               *)

InitRange ==
    /\ features = <<>>
    /\ rangeCall = NoRangeCall
    /\ fillCall = NoFillCall
    /\ styleLayers = <<>>
    /\ lookupCall = NoLookupCall
    /\ layers = {}
    /\ sources = {}
    /\ cleanupCall = NoCleanupCall

AddFeature(f) ==
    /\ Len(features) < MaxFeatures
    /\ features' = Append(features, f)
    /\ rangeCall' = NoRangeCall
    /\ fillCall' = NoFillCall
    /\ UNCHANGED <<lookupVars, cleanupVars>>

CallGetMinMax(key) ==
    /\ rangeCall' = RangeCall(key, GetMinMaxFromGeoJson(features, key))
    /\ UNCHANGED <<features, fillCall, lookupVars, cleanupVars>>

CallGetFillColor(key) ==
    /\ fillCall' = GetDynamicFillColorExpression(features, key)
    /\ UNCHANGED <<features, rangeCall, lookupVars, cleanupVars>>

NextRange ==
    \/ \E f \in Features : AddFeature(f)
    \/ \E key \in Keys : CallGetMinMax(key)
    \/ \E key \in Keys : CallGetFillColor(key)

SpecRange == InitRange /\ [][NextRange]_vars

----------------------------------------------------------------------------
(* SpecLookup: a style's layer list (ids unique, as in a map style) is put *)
(* together, then findFirstSymbolLayer is called on it.                    *)

InitLookup == InitRange

AddStyleLayer(layer) ==
    /\ Len(styleLayers) < MaxLayers
    /\ \A i \in 1..Len(styleLayers) : styleLayers[i].id # layer.id
    /\ styleLayers' = Append(styleLayers, layer)
    /\ lookupCall' = NoLookupCall
    /\ UNCHANGED <<rangeVars, cleanupVars>>

CallFindFirstSymbolLayer ==
    /\ lookupCall' = [called |-> TRUE, result |-> FindFirstSymbolLayer(styleLayers)]
    /\ UNCHANGED <<styleLayers, rangeVars, cleanupVars>>

NextLookup ==
    \/ \E layer \in StyleLayer : AddStyleLayer(layer)
    \/ CallFindFirstSymbolLayer

SpecLookup == InitLookup /\ [][NextLookup]_vars

----------------------------------------------------------------------------
(* SpecCleanup: the map starts with any registry; cleanupLayers is called  *)
(* with any two lists, and may be called again with the same two lists.    *)

InitCleanup ==
    /\ features = <<>>
    /\ rangeCall = NoRangeCall
    /\ fillCall = NoFillCall
    /\ styleLayers = <<>>
    /\ lookupCall = NoLookupCall
    /\ layers \in SUBSET Ids
    /\ sources \in SUBSET Ids
    /\ cleanupCall = NoCleanupCall

RunCleanup(layerIds, sourceIds, again) ==
    LET m == CleanupLayers(MapState(layers, sources), layerIds, sourceIds)
    IN /\ layers' = m.layers
       /\ sources' = m.sources
       /\ cleanupCall' =
            [called |-> TRUE, repeat |-> again,
             layerIds |-> layerIds, sourceIds |-> sourceIds,
             entryLayers |-> layers, entrySources |-> sources,
             log |-> m.log, errors |-> m.errors,
             priorRemovals |-> IF again THEN Removals(cleanupCall.log) ELSE 0]
       /\ UNCHANGED <<rangeVars, lookupVars>>

\* The first call.  A first call on any other registry is the first call
\* of the behaviour that starts with that registry.
CallCleanupLayers(layerIds, sourceIds) ==
    /\ ~cleanupCall.called
    /\ RunCleanup(layerIds, sourceIds, FALSE)

CallCleanupLayersAgain ==
    /\ cleanupCall.called
    /\ RunCleanup(cleanupCall.layerIds, cleanupCall.sourceIds, TRUE)

NextCleanup ==
    \/ \E layerIds \in IdLists, sourceIds \in IdLists :
          CallCleanupLayers(layerIds, sourceIds)
    \/ CallCleanupLayersAgain

SpecCleanup == InitCleanup /\ [][NextCleanup]_vars

----------------------------------------------------------------------------
(* Properties of getMinMaxFromGeoJson, checked under SpecRange.            *)
(* A feature collection is, as in the data model, a sequence of features   *)
(* each carrying a property bag; collections with a feature whose bag is   *)
(* null or missing are the subject of C7.                                  *)

AllHaveBags == \A i \in 1..Len(features) : features[i].hasProps

\* the values the bags hold for key, whatever their kind
ValuesFor(key) ==
    {features[i].properties[key] : i \in {j \in 1..Len(features) : features[j].hasProps}}

\* the numeric ones among them
NumericFor(key) == ValuesFor(key) \cap Numeric

\* some feature's value for key is of a kind the scan must ignore
HasIgnoredEntry(key) == ValuesFor(key) \cap (NonNumeric \cup {Undefined}) # {}

\* a <= b in the order of the numbers, Infinity above every finite value
AtMost(a, b) == b.t = "inf" \/ (a.t = "num" /\ b.t = "num" /\ a.v <= b.v)

RangeCalled == rangeCall.result.status # "none"

\* C1: when the bags' values for the key include at least two distinct
\* numeric values, getMinMaxFromGeoJson returns exactly (m, M), m the
\* smallest and M the largest of the numeric values; entries that are
\* missing, null, NaN or a string have no influence.
C1_TrueMinMax ==
    LET N == NumericFor(rangeCall.key)
    IN (RangeCalled /\ AllHaveBags /\ Cardinality(N) >= 2) =>
          \E m \in N, M \in N :
              /\ \A x \in N : AtMost(m, x) /\ AtMost(x, M)
              /\ rangeCall.result = [status |-> "returned", min |-> m, max |-> M]

C1_Witness ==
    /\ RangeCalled /\ AllHaveBags
    /\ NumericFor(rangeCall.key) = {Num(-1), Num(2)}
    /\ HasIgnoredEntry(rangeCall.key)
    /\ rangeCall.result = [status |-> "returned", min |-> Num(-1), max |-> Num(2)]

\* C2: when no feature has a numeric value for the key (the empty
\* collection included), getMinMaxFromGeoJson returns (0, 0).
C2_NoNumericGivesZeroZero ==
    (RangeCalled /\ AllHaveBags /\ NumericFor(rangeCall.key) = {}) =>
        rangeCall.result = [status |-> "returned", min |-> Num(0), max |-> Num(0)]

C2_Witness ==
    /\ RangeCalled /\ AllHaveBags
    /\ Len(features) >= 2
    /\ NumericFor(rangeCall.key) = {}
    /\ {NaN, Str7} \subseteq ValuesFor(rangeCall.key)
    /\ rangeCall.result.min = Num(0) /\ rangeCall.result.max = Num(0)

\* C3: when at least one feature has a numeric value for the key and all
\* numeric values equal the same c, getMinMaxFromGeoJson returns (c, c + 1),
\* however many features carry c and whatever non-numeric or missing
\* entries lie between them.  (c + 1 is JavaScript's: Infinity + 1 is
\* Infinity.)
C3_ConstantGivesUnitRange ==
    LET N == NumericFor(rangeCall.key)
    IN (RangeCalled /\ AllHaveBags /\ Cardinality(N) = 1) =>
          \A c \in N :
              rangeCall.result =
                  [status |-> "returned", min |-> c,
                   max |-> IF c = Infinity THEN Infinity ELSE Num(c.v + 1)]

C3_Witness ==
    /\ RangeCalled /\ AllHaveBags
    /\ Len(features) = 3
    /\ features[1].properties[rangeCall.key] = Num(2)
    /\ features[2].properties[rangeCall.key] \in NonNumeric \cup {Undefined}
    /\ features[3].properties[rangeCall.key] = Num(2)
    /\ rangeCall.result = [status |-> "returned", min |-> Num(2), max |-> Num(3)]

\* C7 as stated: getMinMaxFromGeoJson raises no exception for any feature
\* collection, a missing or null property bag included, and falls back to
\* (0, 0) when no numeric value remains.
C7_NeverThrows ==
    RangeCalled =>
        /\ rangeCall.result.status = "returned"
        /\ NumericFor(rangeCall.key) = {} =>
              rangeCall.result.min = Num(0) /\ rangeCall.result.max = Num(0)

\* C7 as amended: the call returns a range exactly when every feature
\* carries a property bag; a bag that lacks the key counts as a missing
\* entry, and the range is (0, 0) when no numeric value remains.  A feature
\* whose property bag is null or missing makes the call raise a TypeError.
C7_ThrowsOnlyWithoutBag ==
    RangeCalled =>
        IF AllHaveBags
        THEN /\ rangeCall.result.status = "returned"
             /\ NumericFor(rangeCall.key) = {} =>
                   rangeCall.result.min = Num(0) /\ rangeCall.result.max = Num(0)
        ELSE rangeCall.result.status = "TypeError"

C7_Witness ==
    /\ RangeCalled /\ AllHaveBags
    /\ Len(features) >= 2
    /\ ValuesFor(rangeCall.key) = {Undefined}
    /\ rangeCall.result = [status |-> "returned", min |-> Num(0), max |-> Num(0)]

----------------------------------------------------------------------------
(* Property of getDynamicFillColorExpression, checked under SpecRange *)

\* a < b in the order of the numbers
Below(a, b) == AtMost(a, b) /\ a # b

\* C10: the two stop inputs of each 'interpolate' branch are the pair
\* getMinMaxFromGeoJson returns and are strictly ascending, also when the
\* collection has no numeric value for the key.
C10_StopsStrictlyAscending ==
    fillCall.status # "none" =>
        LET r == GetMinMaxFromGeoJson(features, fillCall.key)
        IN /\ fillCall.status = "returned"
           /\ \A branch \in {fillCall.hovered, fillCall.plain} :
                 /\ branch.stop1 = r.min
                 /\ branch.stop2 = r.max
                 /\ Below(branch.stop1, branch.stop2)

----------------------------------------------------------------------------
(* Property of findFirstSymbolLayer, checked under SpecLookup *)

SymbolIndexes == {i \in 1..Len(styleLayers) : styleLayers[i].type = "symbol"}

\* C4: findFirstSymbolLayer returns null when the list is empty or holds no
\* layer of type 'symbol', and otherwise the id of the layer at the
\* smallest index whose type is 'symbol'.
C4_FirstSymbolOrNull ==
    lookupCall.called =>
        IF SymbolIndexes = {}
        THEN lookupCall.result.isNull
        ELSE \E i \in SymbolIndexes :
                /\ \A j \in SymbolIndexes : i <= j
                /\ ~lookupCall.result.isNull
                /\ lookupCall.result.id = styleLayers[i].id

C4_Witness ==
    /\ lookupCall.called
    /\ Len(styleLayers) = 3
    /\ SymbolIndexes = {2, 3}
    /\ ~lookupCall.result.isNull
    /\ lookupCall.result.id = styleLayers[2].id

----------------------------------------------------------------------------
(* Properties of cleanupLayers, checked under SpecCleanup *)

Range(s) == {s[i] : i \in 1..Len(s)}

\* C5: a second cleanupLayers call with the same layerIds and sourceIds,
\* right after the first, signals no error, makes no removal call and
\* leaves the registry as the first call left it.
C5_SecondCallIsNoOp ==
    cleanupCall.repeat =>
        /\ cleanupCall.errors = 0
        /\ Removals(cleanupCall.log) = 0
        /\ layers = cleanupCall.entryLayers
        /\ sources = cleanupCall.entrySources

C5_Witness ==
    /\ cleanupCall.repeat
    /\ cleanupCall.priorRemovals >= 2
    /\ Removals(cleanupCall.log) = 0

\* C6: removeLayer / removeSource is called on an id only if the map holds
\* it at the moment of the call; ids that are absent, or were removed
\* earlier in the same call, are skipped and no error is signalled.
C6_RemoveOnlyPresent ==
    cleanupCall.called =>
        /\ cleanupCall.errors = 0
        /\ \A i \in 1..Len(cleanupCall.log) :
              LET c == cleanupCall.log[i]
              IN /\ c.op = "removeLayer" => c.id \in c.layers
                 /\ c.op = "removeSource" => c.id \in c.sources

C6_Witness ==
    /\ cleanupCall.called
    /\ Len(cleanupCall.layerIds) = 2
    /\ cleanupCall.layerIds[1] = cleanupCall.layerIds[2]
    /\ cleanupCall.layerIds[1] \in cleanupCall.entryLayers
    /\ Cardinality({i \in 1..Len(cleanupCall.log) :
                       cleanupCall.log[i].op = "removeLayer"}) = 1
    /\ \E i \in 1..Len(cleanupCall.sourceIds) :
          cleanupCall.sourceIds[i] \notin cleanupCall.entrySources

\* C8: within one call every layer removal comes before any source
\* removal: no getSource or removeSource call meets a map that still holds
\* a layer of layerIds that was present at entry.
C8_LayersBeforeSources ==
    cleanupCall.called =>
        \A i \in 1..Len(cleanupCall.log) :
            LET c == cleanupCall.log[i]
            IN c.op \in {"getSource", "removeSource"} =>
                  c.layers \cap Range(cleanupCall.layerIds)
                           \cap cleanupCall.entryLayers = {}

C8_Witness ==
    /\ cleanupCall.called
    /\ Range(cleanupCall.layerIds) \cap cleanupCall.entryLayers # {}
    /\ \E i \in 1..Len(cleanupCall.log) : cleanupCall.log[i].op = "removeSource"

\* C9: after the call the layer set is the one at entry minus layerIds and
\* the source set is the one at entry minus sourceIds; a layer id that is
\* only in sourceIds, or a source id only in layerIds, is not removed.
C9_ExactlyListedRemoved ==
    cleanupCall.called =>
        /\ layers = cleanupCall.entryLayers \ Range(cleanupCall.layerIds)
        /\ sources = cleanupCall.entrySources \ Range(cleanupCall.sourceIds)

C9_Witness ==
    /\ cleanupCall.called
    /\ cleanupCall.layerIds = <<"x">>
    /\ cleanupCall.sourceIds = <<"y">>
    /\ cleanupCall.entryLayers = {"x", "y"}
    /\ cleanupCall.entrySources = {"x", "y"}
    /\ layers = {"y"}
    /\ sources = {"x"}

====
